---- MODULE Spec2Model ----
(***************************************************************************)
(* Model of exp_runner (src/src/exp_runner/runner.py): Variable,           *)
(* combine_variables, VarProduct.generate_from, get_timestamp, save_df and *)
(* the runner decorator.                                                   *)
(*                                                                         *)
(* A MetaData dict is a function from a set of string keys to integers.    *)
(* Dicts that the code mutates in place (metadata.update) live in a heap   *)
(* keyed by object identity, so aliasing is observable.                    *)
(***************************************************************************)
EXTENDS Integers, Sequences, FiniteSets, TLC

VARIABLES
    \* ---- combination generator (generate_from / combine_variables) ----
    heap,         \* object identity -> MetaData dict
    collections,  \* the tuple of Variable collections handed to generate_from
    origHeap,     \* history: the heap as the caller built it
    yielded,      \* the Variables generate_from yielded, in order
    combined,     \* the Variable combine_variables returned (or NoVar)
    yieldedFrom,  \* history: for each yielded Variable, the combo it was built from
    combinedFrom, \* history: the inputs combine_variables was called with
    gpc,          \* "idle" | "ready" | "generated" | "combined"
    \* ---- runner decorator + save_df ----
    config,       \* the arguments of runner(...) and the decorated function
    clock,        \* datetime.now(), in microseconds
    dirs,         \* directories that exist
    files,        \* path -> rows of the table written there
    runs,         \* number of invocations of wrapped so far
    last,         \* record of the latest invocation of wrapped
    names         \* history: path written by each completed invocation

vars == <<heap, collections, origHeap, yielded, combined,
          yieldedFrom, combinedFrom, gpc,
          config, clock, dirs, files, runs, last, names>>

genVars == <<heap, collections, origHeap, yielded, combined,
             yieldedFrom, combinedFrom, gpc>>
runVars == <<config, clock, dirs, files, runs, last, names>>

----------------------------------------------------------------------------
(* Bounds *)
MaxInputs == 2   \* Variables in one iterable handed to the wrapped runner
MaxHead   == 2   \* largest head= argument
MaxRuns   == 2   \* invocations of the wrapped runner
MaxTicks  == 2   \* clock advances
MaxColls  == 3   \* collections handed to generate_from
MaxDomain == 2   \* Variables per collection
MaxVars   == 4   \* Variables over all collections of one call

----------------------------------------------------------------------------
(* MetaData dicts *)

EmptyDict == [k \in {} |-> 0]

Dict1(k, v) == [x \in {k} |-> v]

\* the mapping d becomes after d.update(e): e's keys overwrite d's
DictOverlay(d, e) ==
    [k \in DOMAIN d \cup DOMAIN e |-> IF k \in DOMAIN e THEN e[k] ELSE d[k]]

\* metadata.update(v.metadata) on heap objects: mutates target in place
DictUpdate_KeepExisting(h, target, source) ==
    [h EXCEPT ![target] = DictOverlay(h[source], h[target])]

DictUpdate(h, target, source) ==
    [h EXCEPT ![target] = DictOverlay(h[target], h[source])]

\* metadata = {} : a new object, distinct from every live one
FreshId(h) == <<0, Cardinality({id \in DOMAIN h : id[1] = 0}) + 1>>

NewDict(h) == [i \in DOMAIN h \cup {FreshId(h)} |->
                 IF i \in DOMAIN h THEN h[i] ELSE EmptyDict]

----------------------------------------------------------------------------
(* Variable: value + reference to its metadata dict *)

Variable(value, metadata) == [value |-> value, metadata |-> metadata]

NoVar == [value |-> -1, metadata |-> <<0, 0>>]

\* itertools.product(*inputs): tuples in lexicographic order, the last
\* collection advancing fastest; one empty tuple for no collections.
RECURSIVE Concat(_)
Concat(ss) == IF Len(ss) = 0 THEN <<>> ELSE Head(ss) \o Concat(Tail(ss))

Front(s) == SubSeq(s, 1, Len(s) - 1)

RECURSIVE product_Zip(_)
product_Zip(inputs) ==
    IF Len(inputs) = 0 THEN << <<>> >>
    ELSE LET pre == product_Zip(Front(inputs))
             lst == inputs[Len(inputs)]
             n   == IF Len(pre) < Len(lst) THEN Len(pre) ELSE Len(lst)
         IN  IF Len(inputs) = 1 THEN [j \in 1..Len(lst) |-> <<lst[j]>>]
             ELSE [i \in 1..n |-> Append(pre[i], lst[i])]

RECURSIVE product(_)
product(inputs) ==
    IF Len(inputs) = 0 THEN << <<>> >>
    ELSE LET pre == product(Front(inputs))
             lst == inputs[Len(inputs)]
         IN  Concat([i \in 1..Len(pre) |->
                       [j \in 1..Len(lst) |-> Append(pre[i], lst[j])]])

\* for v in combo: metadata.update(v.metadata)
RECURSIVE UpdateAll(_, _, _)
UpdateAll(h, target, combo) ==
    IF Len(combo) = 0 THEN h
    ELSE UpdateAll(DictUpdate(h, target, Head(combo).metadata),
                   target, Tail(combo))

\* one iteration of generate_from's loop body: the heap afterwards and the
\* Variable yielded (value = cls(*values), the raw values in order)
GenStep(h, combo) ==
    LET id == FreshId(h)
        h2 == UpdateAll(NewDict(h), id, combo)
    IN  [heap |-> h2,
         var  |-> Variable([i \in 1..Len(combo) |-> combo[i].value], id)]

RECURSIVE GenLoop(_, _, _)
GenLoop(h, combos, out) ==
    IF Len(combos) = 0 THEN [heap |-> h, out |-> out]
    ELSE LET s == GenStep(h, Head(combos))
         IN  GenLoop(s.heap, Tail(combos), Append(out, s.var))

generate_from(h, inputs) == GenLoop(h, product(inputs), <<>>)

\* the func argument of combine_variables, applied to the list of values
RECURSIVE SumSeq(_)
SumSeq(s) == IF Len(s) = 0 THEN 0 ELSE Head(s) + SumSeq(Tail(s))

CombineFuncs == {"sum", "len"}

ApplyFunc(f, values) == IF f = "sum" THEN SumSeq(values) ELSE Len(values)

combine_variables(h, inputs, func) ==
    LET id == FreshId(h)
        h2 == UpdateAll(NewDict(h), id, inputs)
    IN  [heap |-> h2,
         var  |-> Variable(ApplyFunc(func,
                             [i \in 1..Len(inputs) |-> inputs[i].value]), id)]

----------------------------------------------------------------------------
(* Optional[...] arguments: None is the empty sequence, a value v is <<v>> *)

None == <<>>

Some(v) == <<v>>

\* truthiness of an Optional[str]: None and "" are falsy
Falsy(x) == x = None \/ x = Some("")

----------------------------------------------------------------------------
(* get_timestamp and save_df *)

\* strftime("%Y-%m-%d_%H-%M-%S-%f")[:-3]: the six microsecond digits cut to
\* three, so the stamp identifies the millisecond the clock is in
get_timestamp(clk) == clk \div 1000

\* the keys of writer_map
writer_map ==
    {"csv", "json", "ndjson", "parquet", "ipc", "ipc_stream", "excel",
     "clipboard", "avro", "delta", "iceberg", "database"}

\* output_path / f"{'_'.join(parts)}": directory, the joined parts, and the
\* suffix that follows them
Filename(dir, parts) ==
    [dir |-> dir, stamp |-> parts[1],
     label |-> IF Len(parts) > 1 THEN Some(parts[2]) ELSE None,
     ext |-> ""]

\* writer(filename): creates the file or replaces the one already there
WriteFile(fs, path, content) ==
    [p \in DOMAIN fs \cup {path} |-> IF p = path THEN content ELSE fs[p]]

\* save_df(dataframe, output_dir, name, format) with directories ds, files
\* fs and the clock at clk: the file system afterwards and how the call ended
save_df(ds, fs, clk, dataframe, output_dir, name, format) ==
    LET dir   == IF Falsy(output_dir) THEN "output" ELSE output_dir[1]
        ds2   == ds \cup {dir}
        parts == IF Falsy(name) THEN <<get_timestamp(clk)>>
                 ELSE <<get_timestamp(clk), name[1]>>
        filename == Filename(dir, parts)
    IN  IF format \in writer_map
        THEN [dirs |-> ds2, files |-> WriteFile(fs, filename, dataframe),
              outcome |-> "ok", path |-> Some(filename)]
        ELSE \* writer_map.get(format) is None; calling it raises TypeError
             [dirs |-> ds2, files |-> fs,
              outcome |-> "TypeError", path |-> None]

----------------------------------------------------------------------------
(* The decorated experiment functions *)

\* "sum": experiment of tests/test_runner_simple.py; "main": experiment of
\* tests/main.py; "trials": an experiment returning zero or more rows, one
\* per trial, that reuses the metadata key "a"
FuncKinds == {"sum", "main", "trials"}

FuncName(kind) == IF kind = "trials" THEN "trials" ELSE "experiment"

Results(kind, value) ==
    CASE kind = "sum"  -> << Dict1("sum", value[1] + value[2]) >>
      [] kind = "main" ->
            << [k \in {"sum", "product"} |-> value[1] + value[2]] >>
      [] kind = "trials" ->
            [t \in 1..((value[1] + value[2]) % 3) |->
                [k \in {"trial", "a"} |-> IF k = "trial" THEN t ELSE 10 + t]]

\* the experiment raises on the values in fn.raiseOn
Raises(fn, value) == value \in fn.raiseOn

----------------------------------------------------------------------------
(* runner(...)(func) = wrapped *)

\* {**var.metadata, **res}
MergeRow_MetadataWins(metadata, res) ==
    [k \in DOMAIN metadata \cup DOMAIN res |->
        IF k \in DOMAIN metadata THEN metadata[k] ELSE res[k]]

MergeRow(metadata, res) ==
    [k \in DOMAIN metadata \cup DOMAIN res |->
        IF k \in DOMAIN res THEN res[k] ELSE metadata[k]]

\* rows.append(row)
AppendRow_Prepend(rows, row) == <<row>> \o rows

AppendRow(rows, row) == Append(rows, row)

\* for res in func(var.value): rows.append({**var.metadata, **res})
InnerLoop_FirstOnly(rows, metadata, results) ==
    IF Len(results) = 0 THEN rows
    ELSE AppendRow(rows, MergeRow(metadata, Head(results)))

RECURSIVE InnerLoop(_, _, _)
InnerLoop(rows, metadata, results) ==
    IF Len(results) = 0 THEN rows
    ELSE InnerLoop(AppendRow(rows, MergeRow(metadata, Head(results))),
                   metadata, Tail(results))

\* if head is not None and i >= head: break   (i counts from 0)
HeadStop_OffByOne(head, i) == head # None /\ i > head[1]

HeadStop(head, i) == head # None /\ i >= head[1]

\* for i, var in enumerate(inputs): ...   pos is i + 1; st collects the
\* positions func was called on, the rows and whether func raised
RECURSIVE Loop(_, _, _, _, _)
Loop(inputs, pos, head, fn, st) ==
    IF pos > Len(inputs) \/ HeadStop(head, pos - 1) THEN st
    ELSE IF Raises(fn, inputs[pos].value)
         THEN [st EXCEPT !.calls = Append(@, pos), !.raised = TRUE]
         ELSE Loop(inputs, pos + 1, head, fn,
                   [st EXCEPT !.calls = Append(@, pos),
                              !.rows = InnerLoop(@, inputs[pos].metadata,
                                         Results(fn.kind, inputs[pos].value))])

\* an exception raised by func leaves wrapped before lines 161-162
Aborted_Swallowed(st) == FALSE

Aborted(st) == st.raised

NoRun ==
    [inputs |-> <<>>, calls |-> <<>>, rows |-> <<>>, outcome |-> "none",
     saved |-> None, path |-> None, filesBefore |-> [p \in {} |-> 0]]

----------------------------------------------------------------------------
(* The caller's side of the combination generator *)

\* Variables a caller builds: with one key each as in
\* tests/test_runner_simple.py, with empty metadata, and with keys that
\* overlap the others'
DictAB(a, b) == [k \in {"a", "b"} |-> IF k = "a" THEN a ELSE b]

VarChoices ==
    { [value |-> 1, meta |-> Dict1("a", 1)],
      [value |-> 3, meta |-> Dict1("b", 3)],
      [value |-> 5, meta |-> EmptyDict],
      [value |-> 6, meta |-> DictAB(6, 6)] }

SeqsUpTo(S, n) == UNION {[1..m -> S] : m \in 0..n}

\* the sizes of the collections of one call
Shapes == {sh \in SeqsUpTo(0..MaxDomain, MaxColls) : SumSeq(sh) <= MaxVars}

RECURSIVE Split(_, _)
Split(flat, sh) ==
    IF Len(sh) = 0 THEN <<>>
    ELSE <<SubSeq(flat, 1, Head(sh))>>
         \o Split(SubSeq(flat, Head(sh) + 1, Len(flat)), Tail(sh))


\* the heap holding the metadata dict of the j-th Variable of collection i
HeapOf(cs) ==
    [id \in {x \in (1..Len(cs)) \X (1..MaxDomain) : x[2] <= Len(cs[x[1]])}
        |-> cs[id[1]][id[2]].meta]

RefsOf(cs) ==
    [i \in 1..Len(cs) |->
        [j \in 1..Len(cs[i]) |-> Variable(cs[i][j].value, <<i, j>>)]]

RunIdle ==
    /\ config = [output_dir |-> None, format |-> "csv", head |-> None,
                 func |-> [kind |-> "sum", raiseOn |-> {}]]
    /\ clock = 0
    /\ dirs = {}
    /\ files = [p \in {} |-> 0]
    /\ runs = 0
    /\ last = NoRun
    /\ names = <<>>

InitGen ==
    /\ \E sh \in Shapes : \E flat \in [1..SumSeq(sh) -> VarChoices] :
          LET cs == Split(flat, sh)
          IN  /\ collections = RefsOf(cs)
              /\ heap = HeapOf(cs)
              /\ origHeap = HeapOf(cs)
    /\ yielded = <<>>
    /\ yieldedFrom = <<>>
    /\ combined = NoVar
    /\ combinedFrom = <<>>
    /\ gpc = "ready"
    /\ RunIdle

\* list(cls.generate_from(collections))
GenerateFrom ==
    /\ gpc = "ready"
    /\ LET r == generate_from(heap, collections)
       IN  /\ heap' = r.heap
           /\ yielded' = r.out
    /\ yieldedFrom' = product(collections)
    /\ gpc' = "generated"
    /\ UNCHANGED <<collections, origHeap, combined, combinedFrom>>
    /\ UNCHANGED runVars

\* combine_variables(inputs, func) over one collection or over all Variables
CombineVariables ==
    /\ gpc = "ready"
    /\ \E inputs \in {collections[i] : i \in 1..Len(collections)}
                       \cup {Concat(collections)},
          func \in CombineFuncs :
          LET r == combine_variables(heap, inputs, func)
          IN  /\ heap' = r.heap
              /\ combined' = r.var
              /\ combinedFrom' = inputs
    /\ gpc' = "combined"
    /\ UNCHANGED <<collections, origHeap, yielded, yieldedFrom>>
    /\ UNCHANGED runVars

NextGen == GenerateFrom \/ CombineVariables

SpecGen == InitGen /\ [][NextGen]_vars

----------------------------------------------------------------------------
(* The caller's side of the runner *)

Deref(h, v) == [value |-> v.value, metadata |-> h[v.metadata]]

\* a_values, b_values and Params.generate_from((a_values, b_values)) of
\* tests/test_runner_simple.py
TestCollections ==
    << << [value |-> 1, meta |-> Dict1("a", 1)],
          [value |-> 2, meta |-> Dict1("a", 2)] >>,
       << [value |-> 3, meta |-> Dict1("b", 3)],
          [value |-> 4, meta |-> Dict1("b", 4)] >> >>

TestInputs ==
    LET r == generate_from(HeapOf(TestCollections), RefsOf(TestCollections))
    IN  [k \in 1..Len(r.out) |-> Deref(r.heap, r.out[k])]

\* inputs of tests/main.py: product([1, 2], [2, 3]) with metadata {a, b}
MainInputs ==
    LET ab == << <<1, 2>>, <<1, 3>>, <<2, 2>>, <<2, 3>> >>
    IN  [k \in 1..4 |-> [value |-> ab[k],
                         metadata |-> DictAB(ab[k][1], ab[k][2])]]

\* further Variables a caller may pass: one with empty metadata and one
\* whose metadata has the key "sum" that the experiments also return
RunPool ==
    { [value |-> <<2, 3>>, metadata |-> EmptyDict],
      [value |-> <<2, 4>>,
       metadata |-> [k \in {"a", "sum"} |-> IF k = "a" THEN 2 ELSE 0]] }

InputChoices == {TestInputs, MainInputs} \cup SeqsUpTo(RunPool, MaxInputs)

OutputDirArgs == {None, Some("tmp")}

FormatArgs == {"csv", "ndjson", "xml"}

HeadArgs == {None} \cup {Some(k) : k \in 0..MaxHead}

RaiseArgs == {{}, {<<1, 3>>}, {<<2, 3>>}, {<<2, 4>>}}

\* microseconds the clock advances by between two observations
TickStep == 500

GenIdle ==
    /\ heap = [id \in {} |-> EmptyDict]
    /\ collections = <<>>
    /\ origHeap = [id \in {} |-> EmptyDict]
    /\ yielded = <<>>
    /\ yieldedFrom = <<>>
    /\ combined = NoVar
    /\ combinedFrom = <<>>
    /\ gpc = "idle"

\* @runner(output_dir=..., format=..., head=...) applied to an experiment
Init ==
    /\ \E od \in OutputDirArgs, fmt \in FormatArgs, hd \in HeadArgs,
          kind \in FuncKinds, ro \in RaiseArgs :
          config = [output_dir |-> od, format |-> fmt, head |-> hd,
                    func |-> [kind |-> kind, raiseOn |-> ro]]
    /\ clock = 0
    /\ dirs = {}
    /\ files = [p \in {} |-> 0]
    /\ runs = 0
    /\ last = NoRun
    /\ names = <<>>
    /\ GenIdle

\* one call wrapped(inputs)
Wrapped ==
    /\ runs < MaxRuns
    /\ \E inputs \in InputChoices :
          LET st == Loop(inputs, 1, config.head, config.func,
                         [calls |-> <<>>, rows |-> <<>>, raised |-> FALSE])
              r  == save_df(dirs, files, clock, runs + 1, config.output_dir,
                            Some(FuncName(config.func.kind)), config.format)
          IN  IF Aborted(st)
              THEN /\ last' = [inputs |-> inputs, calls |-> st.calls,
                               rows |-> st.rows,
                               outcome |-> "ExperimentError",
                               saved |-> None, path |-> None,
                               filesBefore |-> files]
                   /\ UNCHANGED <<dirs, files, names>>
              ELSE /\ last' = [inputs |-> inputs, calls |-> st.calls,
                               rows |-> st.rows, outcome |-> r.outcome,
                               saved |-> Some(st.rows), path |-> r.path,
                               filesBefore |-> files]
                   /\ dirs' = r.dirs
                   /\ files' = r.files
                   /\ names' = IF r.outcome = "ok"
                               THEN Append(names, r.path[1]) ELSE names
    /\ runs' = runs + 1
    /\ UNCHANGED <<config, clock>>
    /\ UNCHANGED genVars

\* time passes
Tick ==
    /\ clock < MaxTicks * TickStep
    /\ clock' = clock + TickStep
    /\ UNCHANGED <<config, dirs, files, runs, last, names>>
    /\ UNCHANGED genVars

Next == Wrapped \/ Tick

Spec == Init /\ [][Next]_vars

----------------------------------------------------------------------------
(* Properties of the runner, stated on the latest invocation of wrapped *)

Ran == last.outcome # "none"

Min(a, b) == IF a < b THEN a ELSE b

\* positions (from 1) of the combinations within the head limit
Within == IF config.head = None THEN 1..Len(last.inputs)
          ELSE 1..Min(config.head[1], Len(last.inputs))

\* positions within the limit on which the experiment raises
RaisePos == {p \in Within : Raises(config.func, last.inputs[p].value)}

FirstRaise == CHOOSE p \in RaisePos : \A q \in RaisePos : p <= q

\* positions whose results the experiment returned
Done == IF RaisePos = {} THEN Within
        ELSE {p \in Within : p < FirstRaise}

ResultsAt(p) == Results(config.func.kind, last.inputs[p].value)

RECURSIVE RowsBefore(_)
RowsBefore(p) == IF p <= 1 THEN 0
                 ELSE Len(ResultsAt(p - 1)) + RowsBefore(p - 1)

\* index of the row for the j-th result of the p-th combination
Rank(p, j) == RowsBefore(p) + j

OneTo(n) == [i \in 1..n |-> i]

TestRows ==
    { [k \in {"a", "b", "sum"} |->
         IF k = "a" THEN t[1] ELSE IF k = "b" THEN t[2] ELSE t[3]] :
      t \in {<<1, 3, 4>>, <<1, 4, 5>>, <<2, 3, 5>>, <<2, 4, 6>>} }

\* C1: every result mapping returned for a processed combination gives one
\* row whose keys are the metadata's and the result's, with the result's
\* value on the result's keys and the metadata's value on the others; the
\* scenario of tests/test_runner_simple.py gives exactly the rows (1,3,4),
\* (1,4,5), (2,3,5), (2,4,6) over the columns a, b, sum.
Thm_C1 ==
    Ran =>
      /\ \A p \in Done : \A j \in 1..Len(ResultsAt(p)) :
            /\ Rank(p, j) <= Len(last.rows)
            /\ LET row  == last.rows[Rank(p, j)]
                   meta == last.inputs[p].metadata
                   res  == ResultsAt(p)[j]
               IN  /\ DOMAIN row = DOMAIN meta \cup DOMAIN res
                   /\ \A k \in DOMAIN res : row[k] = res[k]
                   /\ \A k \in DOMAIN meta \ DOMAIN res : row[k] = meta[k]
      /\ ( /\ last.inputs = TestInputs
           /\ config.func.kind = "sum"
           /\ Done = 1..4 )
         => /\ Len(last.rows) = 4
            /\ {last.rows[r] : r \in 1..4} = TestRows
            /\ \A r \in 1..4 : DOMAIN last.rows[r] = {"a", "b", "sum"}

\* a run in which a result key was also a metadata key and another
\* metadata key was not in the result
Wit_C1 ==
    /\ last.outcome = "ok"
    /\ \E p \in Done : \E j \in 1..Len(ResultsAt(p)) :
          /\ DOMAIN last.inputs[p].metadata \cap DOMAIN ResultsAt(p)[j] # {}
          /\ DOMAIN last.inputs[p].metadata \ DOMAIN ResultsAt(p)[j] # {}
          /\ \E k \in DOMAIN ResultsAt(p)[j] \cap DOMAIN last.inputs[p].metadata :
                ResultsAt(p)[j][k] # last.inputs[p].metadata[k]

\* C2: when the experiment raises on a processed combination the run ends
\* with that failure, the experiment was called on the combinations up to
\* the raising one and on none after it, each once, save_df was not reached
\* and the files are those that were there before the run.
Thm_C2 ==
    (Ran /\ RaisePos # {}) =>
      /\ last.outcome = "ExperimentError"
      /\ last.calls = OneTo(FirstRaise)
      /\ last.saved = None
      /\ last.path = None
      /\ files = last.filesBefore

\* the experiment raised on the third of four combinations, after an
\* earlier run had left a file
Wit_C2 ==
    /\ last.outcome = "ExperimentError"
    /\ Len(last.inputs) = 4
    /\ last.calls = <<1, 2, 3>>
    /\ DOMAIN files # {}

\* C3: with head = K >= 0 the experiment is called on no combination at
\* position K or later; when none raises it is called on exactly the first
\* min(K, n) combinations in order and every row comes from one of them.
\* With head unset every combination is processed.
Thm_C3 ==
    Ran =>
      /\ config.head # None =>
            /\ \A c \in 1..Len(last.calls) :
                  last.calls[c] = c /\ c <= config.head[1]
            /\ RaisePos = {} =>
                  /\ last.calls =
                        OneTo(Min(config.head[1], Len(last.inputs)))
                  /\ \A r \in 1..Len(last.rows) :
                        \E p \in 1..Min(config.head[1], Len(last.inputs)) :
                        \E j \in 1..Len(ResultsAt(p)) :
                           /\ r = Rank(p, j)
                           /\ last.rows[r] = MergeRow(last.inputs[p].metadata,
                                                      ResultsAt(p)[j])
      /\ (config.head = None /\ RaisePos = {}) =>
            last.calls = OneTo(Len(last.inputs))

\* head = 1 with four combinations: only the first was processed
Wit_C3 ==
    /\ last.outcome = "ok"
    /\ config.head = Some(1)
    /\ Len(last.inputs) = 4
    /\ last.calls = <<1>>
    /\ Len(last.rows) >= 1

\* C4: the experiment is called on the combinations in input order, once
\* each, and the rows handed to save_df are in production order: the row
\* for the j-th result of the p-th combination stands after the rows of all
\* earlier combinations and after the first j-1 rows of its own.
Thm_C4 ==
    Ran =>
      /\ last.calls = OneTo(Len(last.calls))
      /\ \A p \in Done : \A j \in 1..Len(ResultsAt(p)) :
            /\ Rank(p, j) <= Len(last.rows)
            /\ last.rows[Rank(p, j)] =
                  MergeRow(last.inputs[p].metadata, ResultsAt(p)[j])
      /\ RaisePos = {} => last.saved = Some(last.rows)

\* a run with a combination of two results followed by a combination with
\* a result
Wit_C4 ==
    /\ last.outcome = "ok"
    /\ \E p, q \in Done :
          p < q /\ Len(ResultsAt(p)) = 2 /\ Len(ResultsAt(q)) >= 1
    /\ \E r1, r2 \in 1..Len(last.rows) : last.rows[r1] # last.rows[r2]

RECURSIVE SumResults(_)
SumResults(P) ==
    IF P = {} THEN 0
    ELSE LET p == CHOOSE x \in P : TRUE
         IN  Len(ResultsAt(p)) + SumResults(P \ {p})

\* C10: the number of rows a completed run writes is the sum, over the
\* combinations within the head limit, of the number of result mappings
\* returned for each.
Thm_C10 ==
    last.outcome = "ok" =>
      /\ last.saved # None
      /\ Len(last.saved[1]) = SumResults(Within)

\* a completed run where one combination gave no row and another gave two
Wit_C10 ==
    /\ last.outcome = "ok"
    /\ \E p, q \in Within : Len(ResultsAt(p)) = 0 /\ Len(ResultsAt(q)) = 2
    /\ Len(last.saved[1]) # Len(last.calls)

\* C5: after the first completed run of a runner with format "csv" the
\* output directory holds exactly one file with the extension csv, and its
\* label is the experiment function's name.
Claim_C5 ==
    (runs = 1 /\ last.outcome = "ok" /\ config.format = "csv") =>
      LET D   == IF Falsy(config.output_dir) THEN "output"
                 ELSE config.output_dir[1]
          csv == {p \in DOMAIN files : p.dir = D /\ p.ext = "csv"}
      IN  /\ Cardinality(csv) = 1
          /\ \A p \in csv : p.label = Some(FuncName(config.func.kind))

\* C6: save_df with a format outside the supported ones fails with a
\* configuration error naming the format and writes no file.
Claim_C6 ==
    (Ran /\ RaisePos = {} /\ config.format \notin writer_map) =>
      /\ last.outcome = "ConfigurationError"
      /\ files = last.filesBefore

\* C7: the filenames of the completed invocations are pairwise distinct and
\* the directory holds one file per completed invocation.
Claim_C7 ==
    /\ \A i, j \in 1..Len(names) : i # j => names[i] # names[j]
    /\ Cardinality(DOMAIN files) = Len(names)

----------------------------------------------------------------------------
(* Properties of the combination generator *)

RECURSIVE ProdLen(_)
ProdLen(cs) == IF Len(cs) = 0 THEN 1 ELSE Len(Head(cs)) * ProdLen(Tail(cs))

\* every way of taking one member from each collection
AllPairings ==
    {[i \in 1..Len(collections) |-> collections[i][f[i]]] :
       f \in {g \in [1..Len(collections) -> 1..MaxDomain] :
                \A i \in 1..Len(collections) : g[i] <= Len(collections[i])}}

MetaOf(v) == origHeap[v.metadata]

\* the dict id holds the overlay of the members' metadata in order
MergedFrom(members, id) ==
    /\ id \notin DOMAIN origHeap
    /\ id \in DOMAIN heap
    /\ DOMAIN heap[id] =
          UNION {DOMAIN MetaOf(members[i]) : i \in 1..Len(members)}
    /\ \A k \in DOMAIN heap[id] :
          \E i \in 1..Len(members) :
             /\ k \in DOMAIN MetaOf(members[i])
             /\ \A i2 \in (i + 1)..Len(members) :
                   k \notin DOMAIN MetaOf(members[i2])
             /\ heap[id][k] = MetaOf(members[i])[k]
    /\ (\A i, i2 \in 1..Len(members) :
           i # i2 => DOMAIN MetaOf(members[i]) \cap
                     DOMAIN MetaOf(members[i2]) = {})
       => \A i \in 1..Len(members) : \A k \in DOMAIN MetaOf(members[i]) :
             heap[id][k] = MetaOf(members[i])[k]

\* C8: the merged metadata of a combination is a fresh dict that holds the
\* members' metadata overlaid in the order supplied (the last member having
\* a key gives its value; disjoint members give their union; an empty one
\* adds nothing), and no input Variable's metadata is changed.
Thm_C8 ==
    /\ gpc = "generated" =>
          /\ \A n \in 1..Len(yielded) :
                MergedFrom(yieldedFrom[n], yielded[n].metadata)
          /\ \A n, m \in 1..Len(yielded) :
                n # m => yielded[n].metadata # yielded[m].metadata
    /\ gpc = "combined" => MergedFrom(combinedFrom, combined.metadata)
    /\ \A id \in DOMAIN origHeap : heap[id] = origHeap[id]

\* a combination of three members: two share a key with different values
\* and one has empty metadata
Wit_C8 ==
    /\ gpc = "generated"
    /\ \E n \in 1..Len(yielded) :
          LET c == yieldedFrom[n]
          IN  /\ Len(c) = 3
              /\ \E i \in 1..3 : MetaOf(c[i]) = EmptyDict
              /\ \E i, i2 \in 1..3 :
                    /\ i < i2
                    /\ \E k \in DOMAIN MetaOf(c[i]) \cap DOMAIN MetaOf(c[i2]) :
                          MetaOf(c[i])[k] # MetaOf(c[i2])[k]

\* C9: generate_from yields one combination per tuple of the Cartesian
\* product, none twice and none missing, each with the members' raw values
\* in collection order; with an empty collection it yields nothing.
Thm_C9 ==
    gpc = "generated" =>
      /\ Len(yielded) = ProdLen(collections)
      /\ Len(yieldedFrom) = Len(yielded)
      /\ {yieldedFrom[n] : n \in 1..Len(yieldedFrom)} = AllPairings
      /\ \A n, m \in 1..Len(yieldedFrom) :
            n # m => yieldedFrom[n] # yieldedFrom[m]
      /\ \A n \in 1..Len(yielded) :
            yielded[n].value =
               [i \in 1..Len(collections) |-> yieldedFrom[n][i].value]
      /\ (\E i \in 1..Len(collections) : Len(collections[i]) = 0)
            => yielded = <<>>

\* two domains of two members each gave four combinations
Wit_C9 ==
    /\ gpc = "generated"
    /\ Len(collections) = 2
    /\ Len(collections[1]) = 2
    /\ Len(collections[2]) = 2
    /\ Len(yielded) = 4

====
